---- MODULE Spec2Model ----
(***************************************************************************)
(* Model of Effects.h: the grid helpers countMines, floodScore and         *)
(* floodDemolition, and the effect lifecycle (Effects, RingWaveEffect,     *)
(* ScreenFlashEffect, ExplosionSoundEffect).                               *)
(***************************************************************************)
EXTENDS Integers, Sequences, FiniteSets, TLC

(***************************************************************************)
(* Bounds of the model.                                                    *)
(***************************************************************************)
H == 3
W == 3
MaxMines == 2
MaxCalls == 3

Rows == 0 .. (H - 1)
Cols == 0 .. (W - 1)
Cells == Rows \X Cols

MaxSolo == 1
MaxLifeTicks == 6
MaxEffects == 2
MaxUpdates == 4

VARIABLES grid, selected, scored, op, argR, argC, ret, touched,
          preSelected, preScored, calls, totalScore, contrib,
          heap, effectsList, eop, frameArg, beginList, stepped, deletedIn

gridVars == <<grid, selected, scored, op, argR, argC, ret, touched,
              preSelected, preScored, calls, totalScore, contrib>>

effectVars == <<heap, effectsList, eop, frameArg, beginList, stepped, deletedIn>>

vars == <<gridVars, effectVars>>

AllFalse == [cell \in Cells |-> FALSE]
NoContrib == [cell \in Cells |-> 0]

(***************************************************************************)
(* The loops "for (int horizontal = -1; horizontal <= 1; horizontal++)"    *)
(* and "for (int vertical = -1; vertical <= 1; vertical++)".               *)
(***************************************************************************)
LoopFirst == 0 - 1
LoopLastWide == 1 + 1
LoopLast == 1

\* "if (horizontal == 0 && vertical == 0) continue;"
IsCentreNever(horizontal, vertical) == FALSE
IsCentre(horizontal, vertical) == horizontal = 0 /\ vertical = 0

\* "makes sure the array stays in bounds"
InBounds(checkHorizontal, checkVertical) ==
    (checkHorizontal >= 0 /\ checkHorizontal < H)
    /\ (checkVertical >= 0 /\ checkVertical < W)

(***************************************************************************)
(* countMines: the two nested loops, one iteration per call of             *)
(* countMinesLoop, in the order of the code.                               *)
(***************************************************************************)
RECURSIVE countMinesLoop(_, _, _, _, _, _)
countMinesLoop(g, rows, columns, horizontal, vertical, count) ==
    IF horizontal > LoopLast THEN count
    ELSE IF vertical > LoopLast
        THEN countMinesLoop(g, rows, columns, horizontal + 1, LoopFirst, count)
    ELSE IF IsCentre(horizontal, vertical)
        THEN countMinesLoop(g, rows, columns, horizontal, vertical + 1, count)
    ELSE LET checkHorizontal == rows + horizontal
             checkVertical == columns + vertical
         IN  IF InBounds(checkHorizontal, checkVertical)
                 /\ g[<<checkHorizontal, checkVertical>>]
             THEN countMinesLoop(g, rows, columns, horizontal, vertical + 1, count + 1)
             ELSE countMinesLoop(g, rows, columns, horizontal, vertical + 1, count)

countMines(g, rows, columns) ==
    countMinesLoop(g, rows, columns, LoopFirst, LoopFirst, 0)

(***************************************************************************)
(* floodScore.  The loop state is a record: the two grids it writes, the   *)
(* score, and the set of index pairs used to subscript an array.           *)
(***************************************************************************)
ShouldScoreIgnoringScored(g, sc, i, j) == ~g[<<i, j>>]
ShouldScoreIgnoringMines(g, sc, i, j) == ~sc[<<i, j>>]
ShouldScore(g, sc, i, j) == ~g[<<i, j>>] /\ ~sc[<<i, j>>]

RECURSIVE floodScoreLoop(_, _, _, _, _, _)
floodScoreLoop(g, rows, columns, horizontal, vertical, st) ==
    IF horizontal > LoopLast THEN st
    ELSE IF vertical > LoopLast
        THEN floodScoreLoop(g, rows, columns, horizontal + 1, LoopFirst, st)
    ELSE IF IsCentre(horizontal, vertical)
        THEN floodScoreLoop(g, rows, columns, horizontal, vertical + 1, st)
    ELSE LET checkHorizontal == rows + horizontal
             checkVertical == columns + vertical
             idx == <<checkHorizontal, checkVertical>>
         IN  IF InBounds(checkHorizontal, checkVertical)
             THEN IF ShouldScore(g, st.scored, checkHorizontal, checkVertical)
                  THEN floodScoreLoop(g, rows, columns, horizontal, vertical + 1,
                         [selected |-> [st.selected EXCEPT ![idx] = TRUE],
                          scored   |-> [st.scored EXCEPT ![idx] = TRUE],
                          score    |-> st.score + 100,
                          touched  |-> st.touched \cup {idx},
                          marked   |-> Append(st.marked, idx)])
                  ELSE floodScoreLoop(g, rows, columns, horizontal, vertical + 1,
                         [st EXCEPT !.touched = @ \cup {idx}])
             ELSE floodScoreLoop(g, rows, columns, horizontal, vertical + 1, st)

floodScore(g, sel, sc, rows, columns) ==
    floodScoreLoop(g, rows, columns, LoopFirst, LoopFirst,
                   [selected |-> sel, scored |-> sc, score |-> 0,
                    touched |-> {}, marked |-> <<>>])

(***************************************************************************)
(* floodDemolition.                                                        *)
(***************************************************************************)
ShouldSelectAlways(g, i, j) == TRUE
ShouldSelect(g, i, j) == ~g[<<i, j>>]

RECURSIVE floodDemolitionLoop(_, _, _, _, _, _)
floodDemolitionLoop(g, rows, columns, horizontal, vertical, st) ==
    IF horizontal > LoopLast THEN st
    ELSE IF vertical > LoopLast
        THEN floodDemolitionLoop(g, rows, columns, horizontal + 1, LoopFirst, st)
    ELSE IF IsCentre(horizontal, vertical)
        THEN floodDemolitionLoop(g, rows, columns, horizontal, vertical + 1, st)
    ELSE LET checkHorizontal == rows + horizontal
             checkVertical == columns + vertical
             idx == <<checkHorizontal, checkVertical>>
         IN  IF InBounds(checkHorizontal, checkVertical)
             THEN IF ShouldSelect(g, checkHorizontal, checkVertical)
                  THEN floodDemolitionLoop(g, rows, columns, horizontal, vertical + 1,
                         [selected |-> [st.selected EXCEPT ![idx] = TRUE],
                          touched  |-> st.touched \cup {idx}])
                  ELSE floodDemolitionLoop(g, rows, columns, horizontal, vertical + 1,
                         [st EXCEPT !.touched = @ \cup {idx}])
             ELSE floodDemolitionLoop(g, rows, columns, horizontal, vertical + 1, st)

floodDemolition(g, sel, rows, columns) ==
    floodDemolitionLoop(g, rows, columns, LoopFirst, LoopFirst,
                        [selected |-> sel, touched |-> {}])

(***************************************************************************)
(* Grid operations as steps.  preSelected and preScored hold the arrays as *)
(* they were when the last flood call began; totalScore adds up the values *)
(* floodScore returned; contrib counts, per cell, how often the cell added *)
(* to a returned score.                                                    *)
(***************************************************************************)
RECURSIVE Occurrences(_, _)
Occurrences(seq, x) ==
    IF seq = <<>> THEN 0
    ELSE (IF Head(seq) = x THEN 1 ELSE 0) + Occurrences(Tail(seq), x)

\* One call on the grid the behaviour began with.
CountMines(r, c) ==
    /\ op = "none"
    /\ op' = "countMines"
    /\ argR' = r
    /\ argC' = c
    /\ ret' = countMines(grid, r, c)
    /\ UNCHANGED <<grid, selected, scored, touched, preSelected, preScored,
                   calls, totalScore, contrib>>
    /\ UNCHANGED effectVars

FloodScore(r, c) ==
    /\ calls < MaxCalls
    /\ \E res \in {floodScore(grid, selected, scored, r, c)} :
           /\ selected' = res.selected
           /\ scored' = res.scored
           /\ ret' = res.score
           /\ touched' = res.touched
           /\ totalScore' = totalScore + res.score
           /\ contrib' = [cell \in Cells |->
                             contrib[cell] + Occurrences(res.marked, cell)]
    /\ op' = "floodScore"
    /\ argR' = r
    /\ argC' = c
    /\ preSelected' = selected
    /\ preScored' = scored
    /\ calls' = calls + 1
    /\ UNCHANGED grid
    /\ UNCHANGED effectVars

FloodDemolition(r, c) ==
    /\ calls < MaxCalls
    /\ \E res \in {floodDemolition(grid, selected, r, c)} :
           /\ selected' = res.selected
           /\ touched' = res.touched
    /\ op' = "floodDemolition"
    /\ argR' = r
    /\ argC' = c
    /\ preSelected' = selected
    /\ preScored' = scored
    /\ calls' = calls + 1
    /\ UNCHANGED <<grid, scored, ret, totalScore, contrib>>
    /\ UNCHANGED effectVars

InitEffectVars ==
    /\ heap = <<>>
    /\ effectsList = <<>>
    /\ eop = "none"
    /\ frameArg = 0
    /\ beginList = <<>>
    /\ stepped = <<>>
    /\ deletedIn = <<>>

InitGridRest ==
    /\ selected = AllFalse
    /\ scored = AllFalse
    /\ op = "none"
    /\ argR = 0
    /\ argC = 0
    /\ ret = 0
    /\ touched = {}
    /\ preSelected = AllFalse
    /\ preScored = AllFalse
    /\ calls = 0
    /\ totalScore = 0
    /\ contrib = NoContrib

Mines(g) == {cell \in Cells : g[cell]}

\* countMines on every mine grid of the model's size.
InitCount ==
    /\ grid \in [Cells -> BOOLEAN]
    /\ InitGridRest
    /\ InitEffectVars

NextCount == \E r \in Rows, c \in Cols : CountMines(r, c)

SpecCount == InitCount /\ [][NextCount]_vars

\* Flood calls on a board with at most MaxMines mines, nothing selected or
\* scored yet.
InitFlood ==
    /\ grid \in {g \in [Cells -> BOOLEAN] : Cardinality(Mines(g)) <= MaxMines}
    /\ InitGridRest
    /\ InitEffectVars

NextFlood ==
    \E r \in Rows, c \in Cols :
        \/ FloodScore(r, c)
        \/ FloodDemolition(r, c)

SpecFlood == InitFlood /\ [][NextFlood]_vars

(***************************************************************************)
(* Properties of the grid helpers.                                         *)
(***************************************************************************)
Steps == {0 - 1, 0, 1}

\* The in-grid cells (r+dr, c+dc), dr and dc in {-1,0,1}, (dr,dc) # (0,0).
Neighbours(r, c) ==
    {cell \in Cells :
        /\ cell[1] - r \in Steps
        /\ cell[2] - c \in Steps
        /\ <<cell[1] - r, cell[2] - c>> # <<0, 0>>}

Abs(x) == IF x < 0 THEN 0 - x ELSE x

Chebyshev(cell, r, c) ==
    LET a == Abs(cell[1] - r)
        b == Abs(cell[2] - c)
    IN  IF a > b THEN a ELSE b

Flooded == op \in {"floodScore", "floodDemolition"}

\* C1: countMines(grid, r, c) returns exactly the number of in-grid cells
\* (r+dr, c+dc), (dr,dc) # (0,0), that hold a mine; the cell itself is never
\* counted and cells outside the grid add nothing.
C1_CountMinesExact ==
    op = "countMines" =>
        ret = Cardinality({cell \in Neighbours(argR, argC) : grid[cell]})

\* A corner cell that is itself a mine, all three of its neighbours mined.
C1_Witness ==
    /\ op = "countMines"
    /\ argR = H - 1
    /\ argC = W - 1
    /\ grid[<<argR, argC>>]
    /\ ret = 3

\* C2: a flood call subscripts the arrays only with in-grid index pairs, and
\* the only cells of selected/scored it changes are in-grid cells at
\* Chebyshev distance exactly 1 from the target; the mine grid is an input.
C2_FloodInBounds ==
    Flooded =>
        /\ touched \subseteq Cells
        /\ \A idx \in touched : Chebyshev(idx, argR, argC) = 1
        /\ \A cell \in Cells :
              (selected[cell] # preSelected[cell] \/ scored[cell] # preScored[cell])
                  => Chebyshev(cell, argR, argC) = 1

\* A flood on the far corner that changed something.
C2_Witness ==
    /\ Flooded
    /\ argR = H - 1
    /\ argC = W - 1
    /\ Cardinality(touched) = 3
    /\ selected # preSelected

\* The neighbours of the target that are no mine and were not scored when
\* the call began.
NewlyScored ==
    {cell \in Neighbours(argR, argC) : ~grid[cell] /\ ~preScored[cell]}

\* C4: floodScore sets selected and scored for exactly the in-grid
\* neighbours that are no mine and were not scored before the call, leaves
\* every other cell of both arrays as it was, and returns 100 per cell marked.
C4_FloodScoreExact ==
    op = "floodScore" =>
        /\ \A cell \in Cells :
              IF cell \in NewlyScored
              THEN selected[cell] /\ scored[cell]
              ELSE /\ selected[cell] = preSelected[cell]
                   /\ scored[cell] = preScored[cell]
        /\ ret = 100 * Cardinality(NewlyScored)

\* A call that met a mine, a neighbour scored earlier, a neighbour selected
\* but not scored, and still marked something.
C4_Witness ==
    /\ op = "floodScore"
    /\ ret > 0
    /\ \E cell \in Neighbours(argR, argC) : grid[cell]
    /\ \E cell \in Neighbours(argR, argC) : preScored[cell]
    /\ \E cell \in Neighbours(argR, argC) : preSelected[cell] /\ ~preScored[cell]

\* C7: floodDemolition selects every in-grid neighbour that is no mine,
\* already selected or scored or not, and changes nothing else: no cell is
\* unselected, no mine is selected by it, scored is not touched.
C7_FloodDemolitionExact ==
    op = "floodDemolition" =>
        /\ \A cell \in Cells :
              selected[cell] =
                  (preSelected[cell]
                     \/ (cell \in Neighbours(argR, argC) /\ ~grid[cell]))
        /\ scored = preScored

\* A demolition beside a mine, over a neighbour already scored, that
\* selected a new cell.
C7_Witness ==
    /\ op = "floodDemolition"
    /\ selected # preSelected
    /\ \E cell \in Neighbours(argR, argC) : grid[cell] /\ ~selected[cell]
    /\ \E cell \in Neighbours(argR, argC) : preScored[cell] /\ preSelected[cell]

ScoredCells == {cell \in Cells : scored[cell]}

\* C9: from all-false arrays, after any sequence of flood calls, no mine is
\* selected or scored, every scored cell is selected, each cell added to a
\* returned score at most once, the returned scores add up to 100 per scored
\* cell, and a floodScore repeated on the same target returns 0 and changes
\* nothing.
C9_FloodInvariant ==
    /\ \A cell \in Cells :
          /\ grid[cell] => (~selected[cell] /\ ~scored[cell])
          /\ scored[cell] => selected[cell]
          /\ contrib[cell] <= 1
    /\ totalScore = 100 * Cardinality(ScoredCells)
    /\ op = "floodScore" =>
          \E again \in {floodScore(grid, selected, scored, argR, argC)} :
              /\ again.score = 0
              /\ again.selected = selected
              /\ again.scored = scored

\* A third call, a floodScore that found every neighbour already scored,
\* on a board with a mine.
C9_Witness ==
    /\ calls >= 3
    /\ op = "floodScore"
    /\ ret = 0
    /\ selected = preSelected
    /\ scored = preScored
    /\ totalScore >= 300
    /\ \E cell \in Neighbours(argR, argC) : scored[cell]
    /\ \E cell \in Cells : grid[cell]

(***************************************************************************)
(* Effects.  A lifetime in seconds is a whole number of ticks of           *)
(* 1/TicksPerSecond s; TicksPerSecond is a power of two, so that the float *)
(* product lifetimeSecondsIn * fps and the sum with 0.5f are exact and the *)
(* integer arithmetic below is what the float code computes.               *)
(***************************************************************************)
TicksPerSecond == 2 ^ 7
fps == 60

LifeTicks == (0 - 1) .. MaxLifeTicks
RadiusPairs == {<<1, 3>>, <<3, 1>>, <<2, 2>>}
FrameTimes == {0, 17}

\* "(int)(lifetimeSecondsIn * fps + 0.5f)", then "f < 1 ? 1 : f".
framesForTruncating(lifeTicks) ==
    IF lifeTicks <= 0 THEN 1
    ELSE LET f == (lifeTicks * fps) \div TicksPerSecond
         IN  IF f < 1 THEN 1 ELSE f
framesFor(lifeTicks) ==
    IF lifeTicks <= 0 THEN 1
    ELSE LET f == (2 * lifeTicks * fps + TicksPerSecond) \div (2 * TicksPerSecond)
         IN  IF f < 1 THEN 1 ELSE f

(***************************************************************************)
(* An effect object.  state, updates, lastRet, everDone,                   *)
(* prevProgress, playCalls and deletes record what happened to the object; *)
(* the other fields are the members of the classes.  progress and radius   *)
(* are the values of the locals of RingWaveEffect::update in its last      *)
(* call, as exact fractions <<numerator, denominator>>.                    *)
(***************************************************************************)
BlankObject ==
    [state |-> "live", kind |-> "none", lifeTicks |-> 0,
     startRadius |-> 0, endRadius |-> 0,
     framesLived |-> 0, totalFrames |-> 1,
     progress |-> <<0, 1>>, prevProgress |-> <<0, 1>>, radius |-> <<0, 1>>,
     loaded |-> FALSE, playCalls |-> 0, status |-> "Stopped",
     updates |-> 0, lastRet |-> FALSE, everDone |-> FALSE,
     deletes |-> 0]

RingWaveEffect(startRadiusIn, endRadiusIn, lifeTicks) ==
    [BlankObject EXCEPT !.kind = "ring", !.lifeTicks = lifeTicks,
                        !.startRadius = startRadiusIn,
                        !.endRadius = endRadiusIn,
                        !.framesLived = 0,
                        !.totalFrames = framesFor(lifeTicks)]

ScreenFlashEffect(lifeTicks) ==
    [BlankObject EXCEPT !.kind = "flash", !.lifeTicks = lifeTicks,
                        !.framesLived = 0,
                        !.totalFrames = framesFor(lifeTicks)]

\* loadOk is the result of buffer.loadFromFile(file).
ExplosionSoundEffectAlwaysPlays(loadOk) ==
    [BlankObject EXCEPT !.kind = "sound", !.loaded = loadOk,
                        !.playCalls = 1, !.status = "Playing"]
ExplosionSoundEffect(loadOk) ==
    IF loadOk
    THEN [BlankObject EXCEPT !.kind = "sound", !.loaded = TRUE,
                             !.playCalls = 1, !.status = "Playing"]
    ELSE [BlankObject EXCEPT !.kind = "sound", !.loaded = FALSE]

\* "if (framesLived < totalFrames) ++framesLived;"
AdvanceFramesAlways(framesLived, totalFrames) == framesLived + 1
AdvanceFrames(framesLived, totalFrames) ==
    IF framesLived < totalFrames THEN framesLived + 1 ELSE framesLived

\* "return framesLived >= totalFrames;"
IsDone(framesLived, totalFrames) == framesLived >= totalFrames

\* The bookkeeping of one call of update that returned done; the parameter
\* of update has no name in any of the three classes and is not read.
Returned(o, frameTimeSec, done) ==
    [o EXCEPT !.updates = @ + 1, !.lastRet = done, !.everDone = @ \/ done]

\* The progress of RingWaveEffect::update, clamped to [0, 1].
RingProgress(framesLived, totalFrames) ==
    LET raw == IF totalFrames > 0 THEN <<framesLived, totalFrames>> ELSE <<1, 1>>
    IN  IF raw[1] < 0 THEN <<0, 1>>
        ELSE IF raw[1] > raw[2] THEN <<1, 1>>
        ELSE raw

\* "startRadius + (endRadius - startRadius) * progress"
RingRadius(startRadius, endRadius, progress) ==
    <<startRadius * progress[2] + (endRadius - startRadius) * progress[1],
      progress[2]>>

RingWaveEffect_update(o, frameTimeSec) ==
    LET progress == RingProgress(o.framesLived, o.totalFrames)
        radius == RingRadius(o.startRadius, o.endRadius, progress)
        lived == AdvanceFrames(o.framesLived, o.totalFrames)
    IN  Returned([o EXCEPT !.prevProgress = o.progress,
                           !.progress = progress,
                           !.radius = radius,
                           !.framesLived = lived],
                 frameTimeSec, IsDone(lived, o.totalFrames))

ScreenFlashEffect_update(o, frameTimeSec) ==
    LET lived == AdvanceFrames(o.framesLived, o.totalFrames)
    IN  Returned([o EXCEPT !.framesLived = lived],
                 frameTimeSec, IsDone(lived, o.totalFrames))

ExplosionSoundEffect_update(o, frameTimeSec) ==
    Returned(o, frameTimeSec, o.status = "Stopped")

\* The virtual call effectsList[i]->update(frameTimeSec).
Effect_update(o, frameTimeSec) ==
    IF o.kind = "ring" THEN RingWaveEffect_update(o, frameTimeSec)
    ELSE IF o.kind = "flash" THEN ScreenFlashEffect_update(o, frameTimeSec)
    ELSE ExplosionSoundEffect_update(o, frameTimeSec)

\* "delete effectsList[i];"
Delete(o) == [o EXCEPT !.state = "deleted", !.deletes = @ + 1]

\* "effectsList.erase(effectsList.begin() + i);" with i counted from 0.
Erase(list, i) ==
    [k \in 1 .. (Len(list) - 1) |-> IF k <= i THEN list[k] ELSE list[k + 1]]

\* The index of the next iteration after an erase: i is left as it is.
AfterEraseSkipping(i) == i + 1
AfterErase(i) == i

(***************************************************************************)
(* Effects::update: the while loop, one iteration per call of updateLoop.  *)
(* st.stepped and st.deletedIn count, per object, the update calls and the *)
(* deletes of this call of Effects::update.                                *)
(***************************************************************************)
RECURSIVE updateLoop(_, _, _)
updateLoop(i, frameTimeSec, st) ==
    IF i < Len(st.list)
    THEN LET id == st.list[i + 1]
             o == Effect_update(st.heap[id], frameTimeSec)
             done == o.lastRet
         IN  IF done
             THEN updateLoop(AfterErase(i), frameTimeSec,
                    [list |-> Erase(st.list, i),
                     heap |-> [st.heap EXCEPT ![id] = Delete(o)],
                     stepped |-> [st.stepped EXCEPT ![id] = @ + 1],
                     deletedIn |-> [st.deletedIn EXCEPT ![id] = @ + 1]])
             ELSE updateLoop(i + 1, frameTimeSec,
                    [list |-> st.list,
                     heap |-> [st.heap EXCEPT ![id] = o],
                     stepped |-> [st.stepped EXCEPT ![id] = @ + 1],
                     deletedIn |-> st.deletedIn])
    ELSE st

Zeroes(n) == [k \in 1 .. n |-> 0]
Range(seq) == {seq[k] : k \in 1 .. Len(seq)}
Live(id) == id \in 1 .. Len(heap) /\ heap[id].state = "live"

\* beginList, stepped, deletedIn and frameArg describe the call of
\* Effects::update (frameArg: of any update) that has just returned; any
\* other step clears them.
ForgetCall ==
    /\ frameArg' = 0
    /\ beginList' = <<>>
    /\ stepped' = <<>>
    /\ deletedIn' = <<>>

\* "new T(args...)" outside the list: the object exists, the list does not
\* hold it yet.
New(obj, limit) ==
    /\ Len(heap) < limit
    /\ heap' = Append(heap, obj)
    /\ eop' = "new"
    /\ UNCHANGED effectsList
    /\ ForgetCall
    /\ UNCHANGED gridVars

\* spawn<T>(args...): "new T(args...)" and push_back.
Spawn(obj) ==
    /\ Len(heap) < MaxEffects
    /\ heap' = Append(heap, obj)
    /\ effectsList' = Append(effectsList, Len(heap) + 1)
    /\ eop' = "spawn"
    /\ ForgetCall
    /\ UNCHANGED gridVars

\* spawn(Effect*): push_back of an object the caller made and hands over.
SpawnPtr(id) ==
    /\ Live(id)
    /\ id \notin Range(effectsList)
    /\ effectsList' = Append(effectsList, id)
    /\ eop' = "spawn"
    /\ UNCHANGED heap
    /\ ForgetCall
    /\ UNCHANGED gridVars

\* Effects::update(frameTimeSec).
EffectsUpdate(frameTimeSec) ==
    /\ \A id \in Range(effectsList) : heap[id].updates < MaxUpdates
    /\ \E st \in {updateLoop(0, frameTimeSec,
                     [list |-> effectsList, heap |-> heap,
                      stepped |-> Zeroes(Len(heap)),
                      deletedIn |-> Zeroes(Len(heap))])} :
           /\ effectsList' = st.list
           /\ heap' = st.heap
           /\ stepped' = st.stepped
           /\ deletedIn' = st.deletedIn
    /\ beginList' = effectsList
    /\ eop' = "update"
    /\ frameArg' = frameTimeSec
    /\ UNCHANGED gridVars

\* Effects::clearAll(), also the destructor's work.
ClearAll ==
    /\ effectsList # <<>>
    /\ heap' = [id \in 1 .. Len(heap) |->
                   IF id \in Range(effectsList) THEN Delete(heap[id]) ELSE heap[id]]
    /\ effectsList' = <<>>
    /\ eop' = "clearAll"
    /\ ForgetCall
    /\ UNCHANGED gridVars

\* update called on the object itself, through the reference spawn returns
\* or the pointer the caller holds.
DirectUpdate(id, frameTimeSec) ==
    /\ Live(id)
    /\ heap[id].updates < MaxUpdates
    /\ heap' = [heap EXCEPT ![id] = Effect_update(heap[id], frameTimeSec)]
    /\ eop' = "direct"
    /\ frameArg' = frameTimeSec
    /\ UNCHANGED effectsList
    /\ beginList' = <<>>
    /\ stepped' = <<>>
    /\ deletedIn' = <<>>
    /\ UNCHANGED gridVars

\* The audio device reaches the end of the samples of a playing sound.
SoundStops(id) ==
    /\ Live(id)
    /\ heap[id].kind = "sound"
    /\ heap[id].status = "Playing"
    /\ heap' = [heap EXCEPT ![id].status = "Stopped"]
    /\ eop' = "soundStops"
    /\ UNCHANGED effectsList
    /\ ForgetCall
    /\ UNCHANGED gridVars

InitEffects ==
    /\ grid = AllFalse
    /\ InitGridRest
    /\ InitEffectVars

\* One effect at a time, every lifetime and radius pair, stepped directly.
SoloObjects ==
    {RingWaveEffect(p[1], p[2], t) : p \in RadiusPairs, t \in LifeTicks}
    \cup {ScreenFlashEffect(t) : t \in LifeTicks}
    \cup {ExplosionSoundEffect(b) : b \in BOOLEAN}

NextLife ==
    \/ \E obj \in SoloObjects : New(obj, MaxSolo)
    \/ \E id \in 1 .. Len(heap), ft \in FrameTimes : DirectUpdate(id, ft)
    \/ \E id \in 1 .. Len(heap) : SoundStops(id)

SpecLife == InitEffects /\ [][NextLife]_vars

\* The list: effects of one or two frames and sounds.
ListLifeTicks == {0, 4}
ListObjects ==
    {RingWaveEffect(1, 3, t) : t \in ListLifeTicks}
    \cup {ScreenFlashEffect(t) : t \in ListLifeTicks}
    \cup {ExplosionSoundEffect(b) : b \in BOOLEAN}

NextEffects ==
    \/ \E obj \in ListObjects : Spawn(obj)
    \/ \E obj \in ListObjects : New(obj, MaxEffects)
    \/ \E id \in 1 .. Len(heap) : SpawnPtr(id)
    \/ \E ft \in FrameTimes : EffectsUpdate(ft)
    \/ \E id \in 1 .. Len(heap) : SoundStops(id)
    \/ ClearAll

SpecEffects == InitEffects /\ [][NextEffects]_vars

(***************************************************************************)
(* Properties of the effects.                                              *)
(***************************************************************************)
Ids == 1 .. Len(heap)
Framed(id) == heap[id].kind \in {"ring", "flash"}

\* The lifetime in seconds times 60, rounded to the nearest whole number:
\* the n with n - 1/2 <= lifeTicks * 60 / TicksPerSecond < n + 1/2.
NearestFrames(lifeTicks) ==
    CHOOSE n \in 0 .. (lifeTicks * 60) :
        /\ (2 * n - 1) * TicksPerSecond <= 2 * lifeTicks * 60
        /\ 2 * lifeTicks * 60 < (2 * n + 1) * TicksPerSecond

ExpectedFrames(lifeTicks) ==
    IF lifeTicks <= 0 THEN 1
    ELSE IF NearestFrames(lifeTicks) < 1 THEN 1
    ELSE NearestFrames(lifeTicks)

\* C3: a ring or flash effect has totalFrames = N, N being 1 for a lifetime
\* <= 0 and otherwise the lifetime times 60 rounded to nearest, at least 1;
\* its k-th update returns false for k < N and true for k = N, whatever
\* frame time is passed.
C3_DoneAtFrameCount ==
    \A id \in Ids :
        Framed(id) =>
            LET N == ExpectedFrames(heap[id].lifeTicks)
                k == heap[id].updates
            IN  /\ heap[id].totalFrames = N
                /\ N >= 1
                /\ (k >= 1 /\ k < N) => ~heap[id].lastRet
                /\ k = N => heap[id].lastRet

\* A three-frame effect whose third update, with a non-zero frame time, has
\* just returned true.
C3_Witness ==
    \E id \in Ids :
        /\ Framed(id)
        /\ heap[id].totalFrames = 3
        /\ heap[id].updates = 3
        /\ heap[id].lastRet
        /\ eop = "direct"
        /\ frameArg # 0

\* C10: for a ring or flash effect 0 <= framesLived <= totalFrames and
\* totalFrames >= 1 always hold, and once update has returned true every
\* later update returns true and framesLived stays at totalFrames.
C10_FramesBoundedAndSticky ==
    \A id \in Ids :
        Framed(id) =>
            /\ 0 <= heap[id].framesLived
            /\ heap[id].framesLived <= heap[id].totalFrames
            /\ heap[id].totalFrames >= 1
            /\ heap[id].everDone =>
                  /\ heap[id].lastRet
                  /\ heap[id].framesLived = heap[id].totalFrames

\* An effect of at least two frames updated again after it had completed.
C10_Witness ==
    \E id \in Ids :
        /\ Framed(id)
        /\ heap[id].totalFrames >= 2
        /\ heap[id].updates > heap[id].totalFrames
        /\ heap[id].lastRet

\* Fractions <<n, d>> with d > 0.
FracLeq(a, b) == a[1] * b[2] <= b[1] * a[2]
FracIs(a, x) == a[1] = x * a[2]

\* C8: the progress a ring interpolates with is within [0, 1] and never
\* decreases from one update to the next, the first update applies
\* startRadius, and the update that reports completion applies endRadius
\* (progress 1).
C8_RingReachesEndRadius ==
    \A id \in Ids :
        (heap[id].kind = "ring" /\ heap[id].updates >= 1) =>
            /\ FracLeq(<<0, 1>>, heap[id].progress)
            /\ FracLeq(heap[id].progress, <<1, 1>>)
            /\ FracLeq(heap[id].prevProgress, heap[id].progress)
            /\ heap[id].updates = 1 =>
                  FracIs(heap[id].radius, heap[id].startRadius)
            /\ heap[id].updates = heap[id].totalFrames =>
                  /\ FracIs(heap[id].radius, heap[id].endRadius)
                  /\ FracIs(heap[id].progress, 1)

\* The effects of list whose last update returned false, in their order.
RECURSIVE Keep(_, _)
Keep(list, h) ==
    IF list = <<>> THEN <<>>
    ELSE IF h[Head(list)].lastRet THEN Keep(Tail(list), h)
    ELSE <<Head(list)>> \o Keep(Tail(list), h)

\* C5: one call of Effects::update steps every effect of the list as it was
\* when the call began exactly once, deletes exactly once each effect whose
\* update returned true, and leaves the effects whose update returned false,
\* in their order.
C5_UpdateRemovesCompleted ==
    eop = "update" =>
        /\ \A id \in Ids :
              IF id \in Range(beginList)
              THEN /\ stepped[id] = 1
                   /\ deletedIn[id] = (IF heap[id].lastRet THEN 1 ELSE 0)
                   /\ heap[id].deletes = deletedIn[id]
                   /\ (heap[id].state = "deleted") = heap[id].lastRet
              ELSE /\ stepped[id] = 0
                   /\ deletedIn[id] = 0
        /\ effectsList = Keep(beginList, heap)

\* A call on a list of two: the first effect completed and was erased, the
\* second was stepped and stays.
C5_Witness ==
    /\ eop = "update"
    /\ Len(beginList) >= 2
    /\ heap[beginList[1]].state = "deleted"
    /\ effectsList = <<beginList[2]>>
    /\ heap[beginList[2]].updates >= 1

FailedSound(id) == heap[id].kind = "sound" /\ ~heap[id].loaded

\* C6: an ExplosionSoundEffect whose buffer failed to load never had play
\* called and stays Stopped, so its update returns true; it is never in the
\* list after an Effects::update that began with it: that call deletes it
\* once and steps and keeps or removes every other effect as it would have.
C6_FailedLoadRemovedAtOnce ==
    \A id \in Ids :
        FailedSound(id) =>
            /\ heap[id].playCalls = 0
            /\ heap[id].status = "Stopped"
            /\ heap[id].updates >= 1 => heap[id].lastRet
            /\ id \in Range(effectsList) => heap[id].updates = 0
            /\ (eop = "update" /\ id \in Range(beginList)) =>
                  /\ heap[id].state = "deleted"
                  /\ heap[id].deletes = 1
                  /\ heap[id].updates = 1
                  /\ id \notin Range(effectsList)
                  /\ \A other \in Range(beginList) \ {id} : stepped[other] = 1
                  /\ effectsList = Keep(beginList, heap)

\* A failed sound, spawned before an effect of two frames, removed by the
\* call that left the other effect in the list.
C6_Witness ==
    /\ eop = "update"
    /\ Len(beginList) = 2
    /\ FailedSound(beginList[1])
    /\ heap[beginList[1]].state = "deleted"
    /\ effectsList = <<beginList[2]>>
    /\ heap[beginList[2]].kind = "flash"
    /\ heap[beginList[2]].framesLived = 1

====
